---- MODULE Spec2Model ----
(***************************************************************************)
(* Invoice lifecycle of the billing backend (src/src/models/invoice.py on  *)
(* the SQLite schema of src/src/database_sqlite.py).                       *)
(*                                                                         *)
(* The database is one record `db` holding the tables invoices,            *)
(* invoice_items, invoice_payments and products, each a function from row  *)
(* id to row, and the AUTOINCREMENT counters.  Every method of Invoice     *)
(* runs its statements on a working copy of `db` (the open transaction)    *)
(* and the connection's context manager either commits the copy or, when   *)
(* the body raised, rolls it back.                                         *)
(*                                                                         *)
(* Quantities, prices, tax and discount are drawn from integers, so every  *)
(* total is an integer.  paid_amount, balance_amount and payment amounts   *)
(* are exact rationals <<numerator, denominator>> because the refund of    *)
(* process_return divides; binary rounding of REAL is not modelled.        *)
(* Dates are day numbers that compare like dates; due_date 0 stands for   *)
(* no due date.                                                            *)
(***************************************************************************)
EXTENDS Integers, Sequences, FiniteSets, TLC

\* ------------------------------------------------------------------ bounds
MaxInvoices == 2
MaxOps == 3
InitStock == 3

\* ------------------------------------------------------------- rationals
Abs(n) == IF n < 0 THEN -n ELSE n

RECURSIVE GCD(_, _)
GCD(a, b) == IF b = 0 THEN a ELSE GCD(b, a % b)

RNorm(n, d) ==
    LET s == IF d < 0 THEN -1 ELSE 1
        g == GCD(Abs(n), Abs(d))
    IN  << (s * n) \div g, (s * d) \div g >>

R(n) == << n, 1 >>
RAdd(a, b) == RNorm(a[1] * b[2] + b[1] * a[2], a[2] * b[2])
RSub(a, b) == RNorm(a[1] * b[2] - b[1] * a[2], a[2] * b[2])
RMul(a, b) == RNorm(a[1] * b[1], a[2] * b[2])
RDiv(a, b) == RNorm(a[1] * b[2], a[2] * b[1])
RNeg(a) == << -a[1], a[2] >>
RLt(a, b) == a[1] * b[2] < b[1] * a[2]
RLe(a, b) == a[1] * b[2] <= b[1] * a[2]
RMin(a, b) == IF RLe(a, b) THEN a ELSE b

\* --------------------------------------------------------------- inputs
NoDate == 0
NoNumber == << >>

\* date.today(): the day the calls are made, on the due date or after it
Dates == {1, 2}
Shops == {1}

\* product_id 0 stands for a missing id, 3 for an id without a row
ValidDrafts ==
    { [product_id |-> 1, quantity |-> 3, unit_price |-> 100],
      [product_id |-> 2, quantity |-> 1, unit_price |-> 50] }

InvalidDrafts ==
    { [product_id |-> 0, quantity |-> 1, unit_price |-> 100],
      [product_id |-> 1, quantity |-> 0, unit_price |-> 100],
      [product_id |-> 1, quantity |-> 3, unit_price |-> 0],
      [product_id |-> 3, quantity |-> 1, unit_price |-> 100] }

FirstDrafts == { d \in ValidDrafts : d.quantity = 3 }

\* no item, one item, or a valid first item followed by a second item
ItemLists ==
    {<< >>} \cup { <<a>> : a \in FirstDrafts \cup InvalidDrafts }
            \cup { <<a, b>> : a \in FirstDrafts, b \in (ValidDrafts \ FirstDrafts) \cup InvalidDrafts }

InvoiceDatas ==
    { [invoice_number |-> NoNumber, tax_amount |-> 10, discount_amount |-> 5,
       paid_amount |-> 0, due_date |-> 1],
      [invoice_number |-> NoNumber, tax_amount |-> 0, discount_amount |-> 0,
       paid_amount |-> 320, due_date |-> NoDate],
      [invoice_number |-> NoNumber, tax_amount |-> 0, discount_amount |-> 300,
       paid_amount |-> 0, due_date |-> NoDate] }

\* the arguments of a create: every item list with the invoice data that
\* has a due date, the list of one valid item with the others
CreateInputs ==
    { c \in InvoiceDatas \X ItemLists :
        c[1].due_date # NoDate \/ c[2] \in { <<a>> : a \in FirstDrafts } }

\* db: the tables; today: date.today(); last: the outcome of the latest call;
\* ops: the create / add_payment / process_return / delete calls made so
\* far; reqs: the requests in flight, each with what it has read
VARIABLES db, today, last, ops, reqs

vars == << db, today, last, ops, reqs >>

\* ------------------------------------------------------------ the tables
Rows(t) == DOMAIN t

Put(t, id, row) == [k \in (DOMAIN t) \cup {id} |-> IF k = id THEN row ELSE t[k]]

Remove(t, ids) == [k \in (DOMAIN t) \ ids |-> t[k]]

RECURSIVE SumOver(_, _, _)
SumOver(t, ids, field) ==
    IF ids = {} THEN 0
    ELSE LET k == CHOOSE x \in ids : TRUE
         IN  t[k][field] + SumOver(t, ids \ {k}, field)

RECURSIVE RSumOver(_, _, _)
RSumOver(t, ids, field) ==
    IF ids = {} THEN R(0)
    ELSE LET k == CHOOSE x \in ids : TRUE
         IN  RAdd(t[k][field], RSumOver(t, ids \ {k}, field))

ItemsOf(d, invoice_id) == {k \in Rows(d.invoice_items) : d.invoice_items[k].invoice_id = invoice_id}

PaymentsOf(d, invoice_id) == {k \in Rows(d.invoice_payments) : d.invoice_payments[k].invoice_id = invoice_id}

\* undone counts the rows a call had written when it raised; again tells
\* that the call repeated the accepted call before it, arguments included
NoOp == [op |-> "init", ok |-> TRUE, invoice_id |-> 0, undone |-> 0, amount |-> << 0, 1 >>,
         again |-> FALSE]

Requests == {1, 2}
NoSelf == [none |-> TRUE]
Idle == [pc |-> "idle", invoice_id |-> 0, self |-> NoSelf, amount |-> R(0), ok |-> FALSE,
         number |-> NoNumber]

Init ==
    /\ db = [invoices |-> << >>,
             invoice_items |-> << >>,
             invoice_payments |-> << >>,
             products |-> [p \in {1, 2} |-> [shop_id |-> p, stock_quantity |-> InitStock]],
             seq |-> [invoices |-> 0, invoice_items |-> 0, invoice_payments |-> 0]]
    /\ today \in Dates
    /\ last = NoOp
    /\ ops = 0
    /\ reqs = [r \in Requests |-> Idle]

\* the mutant of conn_exit: what the transaction wrote stays
conn_exit_keeps(raised, before, tx) == tx

\* `with get_db_connection() as conn`: commit when the body finished, roll
\* back when it raised.
conn_exit(raised, before, tx) == IF raised THEN before ELSE tx

\* ------------------------------------------------ generate_invoice_number
\* INV-{shop_id}-{YYYYMMDD}-{count + 1:04d}, kept as its three fields
generate_invoice_number(d, shop_id, date) ==
    << shop_id, date,
       Cardinality({k \in Rows(d.invoices) : d.invoices[k].shop_id = shop_id}) + 1 >>

\* ------------------------------------------------------------------ create
RECURSIVE draft_subtotal(_, _)
draft_subtotal(items, k) ==
    IF k > Len(items) THEN 0
    ELSE items[k].quantity * items[k].unit_price + draft_subtotal(items, k + 1)

\* the mutant of initial_status: without a payment the invoice is pending
initial_status_unpaid_pending(balance_amount, initial_payment) ==
    IF initial_payment > 0
    THEN IF balance_amount <= 0 THEN "paid" ELSE "partial"
    ELSE "pending"

\* "Determine initial status"
initial_status(balance_amount, initial_payment) ==
    IF balance_amount <= 0 THEN "paid"
    ELSE IF initial_payment > 0 THEN "partial"
    ELSE "pending"

\* the loop over items_data: validate, look the product up, insert the item
\* row, lower the stock; stops at the first item that raises
RECURSIVE create_items(_, _, _, _)
create_items(tx, invoice_id, items, k) ==
    IF k > Len(items) THEN [raised |-> FALSE, tx |-> tx]
    ELSE LET item == items[k] IN
         IF item.product_id = 0 THEN [raised |-> TRUE, tx |-> tx]
         ELSE IF item.quantity <= 0 THEN [raised |-> TRUE, tx |-> tx]
         ELSE IF item.unit_price <= 0 THEN [raised |-> TRUE, tx |-> tx]
         ELSE IF item.product_id \notin Rows(tx.products) THEN [raised |-> TRUE, tx |-> tx]
         ELSE LET item_id == tx.seq.invoice_items + 1
                  row == [invoice_id |-> invoice_id, product_id |-> item.product_id,
                          quantity |-> item.quantity, unit_price |-> item.unit_price,
                          total_price |-> item.quantity * item.unit_price]
                  p == tx.products[item.product_id]
                  tx2 == [tx EXCEPT
                            !.invoice_items = Put(@, item_id, row),
                            !.seq.invoice_items = item_id,
                            !.products[item.product_id].stock_quantity =
                                p.stock_quantity - item.quantity]
              IN  create_items(tx2, invoice_id, items, k + 1)

create(d, shop_id, invoice_data, items_data, date) ==
    LET invoice_number == IF invoice_data.invoice_number = NoNumber
                          THEN generate_invoice_number(d, shop_id, date)
                          ELSE invoice_data.invoice_number
        subtotal == draft_subtotal(items_data, 1)
        tax_amount == invoice_data.tax_amount
        discount_amount == invoice_data.discount_amount
        total_amount == subtotal + tax_amount - discount_amount
        initial_payment == invoice_data.paid_amount
        balance_amount == total_amount - initial_payment
        status == initial_status(balance_amount, initial_payment)
        invoice_id == d.seq.invoices + 1
        row == [shop_id |-> shop_id, invoice_number |-> invoice_number,
                due_date |-> invoice_data.due_date, subtotal |-> subtotal,
                tax_amount |-> tax_amount, discount_amount |-> discount_amount,
                total_amount |-> total_amount, paid_amount |-> R(initial_payment),
                balance_amount |-> R(balance_amount), status |-> status]
        \* invoice_number TEXT UNIQUE NOT NULL
        duplicate == \E k \in Rows(d.invoices) : d.invoices[k].invoice_number = invoice_number
        tx1 == [d EXCEPT !.invoices = Put(@, invoice_id, row), !.seq.invoices = invoice_id]
        r == IF duplicate THEN [raised |-> TRUE, tx |-> d]
             ELSE create_items(tx1, invoice_id, items_data, 1)
    IN  [raised |-> r.raised, db |-> conn_exit(r.raised, d, r.tx),
         written |-> r.tx.seq.invoice_items - d.seq.invoice_items]

Create(shop_id, invoice_data, items_data) ==
    /\ db.seq.invoices < MaxInvoices
    /\ ops < MaxOps
    /\ LET r == create(db, shop_id, invoice_data, items_data, today) IN
       /\ db' = r.db
       /\ last' = [NoOp EXCEPT !.op = "create", !.ok = ~r.raised,
                               !.invoice_id = IF r.raised THEN 0 ELSE db.seq.invoices + 1,
                               !.undone = IF r.raised THEN r.written ELSE 0]
       /\ ops' = ops + 1
    /\ UNCHANGED << today, reqs >>

\* ------------------------------------------------------------- add_payment
\* the mutant of payment_status: the "Check if overdue" step is left out
payment_status_no_overdue(self, new_paid_amount, new_balance_amount, payment_date) ==
    IF RLe(new_balance_amount, R(0)) THEN "paid"
    ELSE IF RLt(R(0), new_paid_amount) THEN "partial"
    ELSE "pending"

\* "Determine status based on balance and due date", then "Check if overdue"
payment_status(self, new_paid_amount, new_balance_amount, payment_date) ==
    LET new_status == IF RLe(new_balance_amount, R(0)) THEN "paid"
                      ELSE IF RLt(R(0), new_paid_amount) THEN "partial"
                      ELSE "pending"
    IN  IF self.due_date # NoDate /\ payment_date > self.due_date
           /\ RLt(R(0), new_balance_amount)
        THEN "overdue" ELSE new_status

\* the mutant of payment_rejected: the balance is not checked
payment_rejected_no_balance(self, amount) == RLe(amount, R(0))

\* "Validate payment amount": the two raises before the INSERT
payment_rejected(self, amount) ==
    RLe(amount, R(0)) \/ RLt(self.balance_amount, amount)

\* the mutant of insert_payment: a record equal to an earlier one of the
\* invoice is not inserted again
insert_payment_once(tx, self_id, amount, payment_method) ==
    LET payment_id == tx.seq.invoice_payments + 1
        row == [invoice_id |-> self_id, amount |-> amount, payment_method |-> payment_method]
    IN  IF \E p \in Rows(tx.invoice_payments) : tx.invoice_payments[p] = row
        THEN tx
        ELSE [tx EXCEPT !.invoice_payments = Put(@, payment_id, row),
                        !.seq.invoice_payments = payment_id]

\* "Create payment record": the INSERT INTO invoice_payments
insert_payment(tx, self_id, amount, payment_method) ==
    LET payment_id == tx.seq.invoice_payments + 1
        row == [invoice_id |-> self_id, amount |-> amount, payment_method |-> payment_method]
    IN  [tx EXCEPT !.invoice_payments = Put(@, payment_id, row),
                   !.seq.invoice_payments = payment_id]

\* the mutant of payment_balance: the balance is left as loaded
payment_balance_stale(self, new_paid_amount) == self.balance_amount

\* new_balance_amount = self.total_amount - new_paid_amount
payment_balance(self, new_paid_amount) == RSub(R(self.total_amount), new_paid_amount)

\* self is the Invoice object the caller loaded with get_by_id
add_payment(d, self_id, self, amount, payment_method, payment_date) ==
    IF payment_rejected(self, amount) THEN [raised |-> TRUE, db |-> conn_exit(TRUE, d, d)]
    ELSE LET tx1 == insert_payment(d, self_id, amount, payment_method)
             new_paid_amount == RAdd(self.paid_amount, amount)
             new_balance_amount == payment_balance(self, new_paid_amount)
             new_status == payment_status(self, new_paid_amount, new_balance_amount, payment_date)
             tx2 == IF self_id \in Rows(tx1.invoices)
                    THEN [tx1 EXCEPT !.invoices[self_id].paid_amount = new_paid_amount,
                                     !.invoices[self_id].balance_amount = new_balance_amount,
                                     !.invoices[self_id].status = new_status]
                    ELSE tx1
         IN  [raised |-> FALSE, db |-> conn_exit(FALSE, d, tx2)]

PaymentAmounts(self) == {R(-5), R(0), R(100), self.balance_amount}

AddPayment(id, amount, payment_date) ==
    /\ id \in Rows(db.invoices)
    /\ ops < MaxOps
    /\ LET r == add_payment(db, id, db.invoices[id], amount, "cash", payment_date) IN
       /\ db' = r.db
       /\ last' = [NoOp EXCEPT !.op = "add_payment", !.ok = ~r.raised,
                               !.invoice_id = IF r.raised THEN 0 ELSE id,
                               !.amount = amount,
                               !.again = /\ ~r.raised
                                         /\ last.op = "add_payment" /\ last.ok
                                         /\ last.invoice_id = id /\ last.amount = amount]
       /\ ops' = ops + 1
    /\ UNCHANGED << today, reqs >>

\* ---------------------------------------------------------- process_return
\* the mutant of stock_after_return: the stock is not put back
stock_after_return_kept(stock_quantity, returned_quantity) == stock_quantity

\* SET stock_quantity = stock_quantity + ?
stock_after_return(stock_quantity, returned_quantity) ==
    stock_quantity + returned_quantity

\* the mutant of return_exceeds: the returned quantity is not validated
return_exceeds_unchecked(returned_quantity, original_quantity) == FALSE

\* "Validate return quantity": the condition of the raise
return_exceeds(returned_quantity, original_quantity) ==
    returned_quantity > original_quantity

\* the loop over return_items_data; entries with returned_quantity <= 0 are
\* passed over, the first entry that raises stops the loop
RECURSIVE return_items(_, _, _, _, _)
return_items(tx, entries, k, total_return_amount, applied) ==
    IF k > Len(entries)
    THEN [raised |-> FALSE, tx |-> tx, total_return_amount |-> total_return_amount,
          applied |-> applied]
    ELSE LET item == entries[k] IN
         IF ~(item.returned_quantity > 0)
         THEN return_items(tx, entries, k + 1, total_return_amount, applied)
         ELSE IF item.invoice_item_id \notin Rows(tx.invoice_items)
         THEN [raised |-> TRUE, tx |-> tx, total_return_amount |-> total_return_amount,
               applied |-> applied]
         ELSE LET original_item == tx.invoice_items[item.invoice_item_id]
                  original_quantity == original_item.quantity
                  unit_price == original_item.unit_price
                  product_id == original_item.product_id
              IN  IF return_exceeds(item.returned_quantity, original_quantity)
                  THEN [raised |-> TRUE, tx |-> tx,
                        total_return_amount |-> total_return_amount, applied |-> applied]
                  ELSE LET return_amount == item.returned_quantity * unit_price
                           new_quantity == original_quantity - item.returned_quantity
                           new_total_price == new_quantity * unit_price
                           tx1 == [tx EXCEPT
                                     !.invoice_items[item.invoice_item_id].quantity = new_quantity,
                                     !.invoice_items[item.invoice_item_id].total_price = new_total_price]
                           tx2 == IF product_id \in Rows(tx1.products)
                                  THEN [tx1 EXCEPT !.products[product_id].stock_quantity =
                                              stock_after_return(@, item.returned_quantity)]
                                  ELSE tx1
                       IN  return_items(tx2, entries, k + 1,
                                        total_return_amount + return_amount, applied + 1)

\* the mutant of refund_policy: the paid amount is kept, up to the new total
refund_policy_keeps_amount(current_paid_amount, original_total, new_total_amount) ==
    RMin(R(new_total_amount), current_paid_amount)

\* the refund policy: the paid amount that remains after the return
refund_policy(current_paid_amount, original_total, new_total_amount) ==
    IF RLt(R(new_total_amount), current_paid_amount) THEN R(new_total_amount)
    ELSE IF RLt(R(0), current_paid_amount)
         THEN IF original_total > 0
              THEN LET paid_percentage == RDiv(current_paid_amount, R(original_total))
                   IN  RMin(R(new_total_amount), RMul(R(new_total_amount), paid_percentage))
              ELSE R(0)
    ELSE R(0)

\* the mutant of return_status: a return never marks the invoice paid
return_status_never_paid(new_balance_amount, new_paid_amount) ==
    IF RLt(R(0), new_paid_amount) THEN "partial" ELSE "pending"

return_status(new_balance_amount, new_paid_amount) ==
    IF RLe(new_balance_amount, R(0)) THEN "paid"
    ELSE IF RLt(R(0), new_paid_amount) THEN "partial"
    ELSE "pending"

\* the mutant of return_balance: the stored balance is left as it was
return_balance_stale(self, new_total_amount, new_paid_amount) == self.balance_amount

\* the balance_amount written by "Update invoice amounts"
return_balance(self, new_total_amount, new_paid_amount) ==
    RSub(R(new_total_amount), new_paid_amount)

\* "Create a refund payment record": the row of the INSERT
refund_payment(self_id, refund_amount) ==
    [invoice_id |-> self_id, amount |-> RNeg(refund_amount), payment_method |-> "refund"]

\* the statements after the loop: totals, paid amount, status, refund record
return_totals(tx, self_id, self) ==
    LET new_subtotal == SumOver(tx.invoice_items, ItemsOf(tx, self_id), "total_price")
        new_total_amount == new_subtotal + self.tax_amount - self.discount_amount
        current_paid_amount == self.paid_amount
        new_paid_amount == refund_policy(current_paid_amount, self.total_amount, new_total_amount)
        new_balance_amount == return_balance(self, new_total_amount, new_paid_amount)
        new_status == return_status(new_balance_amount, new_paid_amount)
        tx1 == IF self_id \in Rows(tx.invoices)
               THEN [tx EXCEPT !.invoices[self_id].total_amount = new_total_amount,
                               !.invoices[self_id].paid_amount = new_paid_amount,
                               !.invoices[self_id].balance_amount = new_balance_amount,
                               !.invoices[self_id].status = new_status]
               ELSE tx
        refund_amount == RSub(current_paid_amount, new_paid_amount)
        payment_id == tx1.seq.invoice_payments + 1
    IN  IF RLt(R(0), refund_amount)
        THEN [tx1 EXCEPT
                !.invoice_payments = Put(@, payment_id, refund_payment(self_id, refund_amount)),
                !.seq.invoice_payments = payment_id]
        ELSE tx1

process_return(d, self_id, self, return_items_data) ==
    LET r == return_items(d, return_items_data, 1, 0, 0) IN
    IF r.raised
    THEN [raised |-> TRUE, db |-> conn_exit(TRUE, d, r.tx), ret |-> 0, applied |-> r.applied]
    ELSE [raised |-> FALSE, db |-> conn_exit(FALSE, d, return_totals(r.tx, self_id, self)),
          ret |-> r.total_return_amount, applied |-> r.applied]

ReturnQuantities == {0, 1, 4}

\* every invoice item id in the table and one id without a row
ReturnEntries ==
    { [invoice_item_id |-> i, returned_quantity |-> q] :
        i \in 1..(db.seq.invoice_items + 1), q \in ReturnQuantities }

\* one entry, or an entry that asks for one unit followed by a second entry
\* on the same item or on the id without a row
ReturnLists ==
    { <<a>> : a \in ReturnEntries }
      \cup { l \in { <<a, b>> : a \in {e \in ReturnEntries : e.returned_quantity = 1},
                                b \in ReturnEntries } :
               l[2].invoice_item_id \in {l[1].invoice_item_id, db.seq.invoice_items + 1} }

ProcessReturn(id, entries) ==
    /\ id \in Rows(db.invoices)
    /\ ops < MaxOps
    /\ LET r == process_return(db, id, db.invoices[id], entries) IN
       /\ db' = r.db
       /\ last' = [NoOp EXCEPT !.op = "process_return", !.ok = ~r.raised,
                               !.invoice_id = IF r.raised THEN 0 ELSE id,
                               !.undone = IF r.raised THEN r.applied ELSE 0]
       /\ ops' = ops + 1
    /\ UNCHANGED << today, reqs >>

\* ------------------------------------------------------------------ delete
\* the mutant of delete: the invoice's items are left behind
delete_keeps_items(d, self_id) ==
    LET tx1 == [d EXCEPT !.invoice_payments = Remove(@, PaymentsOf(d, self_id))]
        tx3 == [tx1 EXCEPT !.invoices = Remove(@, {self_id})]
    IN  conn_exit(FALSE, d, tx3)

\* the three DELETE statements and conn.commit(); conn.close() in the
\* finally clause comes after the commit, so what the exit of the with
\* block does on the closed connection leaves the tables as committed
delete(d, self_id) ==
    LET tx1 == [d EXCEPT !.invoice_payments = Remove(@, PaymentsOf(d, self_id))]
        tx2 == [tx1 EXCEPT !.invoice_items = Remove(@, ItemsOf(d, self_id))]
        tx3 == [tx2 EXCEPT !.invoices = Remove(@, {self_id})]
    IN  conn_exit(FALSE, d, tx3)

Delete(id) ==
    /\ id \in Rows(db.invoices)
    /\ ops < MaxOps
    /\ db' = delete(db, id)
    /\ last' = [NoOp EXCEPT !.op = "delete", !.invoice_id = id]
    /\ ops' = ops + 1
    /\ UNCHANGED << today, reqs >>

\* ---------------------------------------------------- check_overdue_status
\* the mutant of check_overdue_status: only a pending invoice is turned
check_overdue_status_pending_only(d, self_id, self, date) ==
    IF self.due_date # NoDate /\ RLt(R(0), self.balance_amount)
       /\ date > self.due_date /\ self.status = "pending"
       /\ self_id \in Rows(d.invoices)
    THEN [d EXCEPT !.invoices[self_id].status = "overdue"]
    ELSE d

\* update_status('overdue') on the stored row when the loaded invoice has a
\* due date in the past, a positive balance and is not paid
check_overdue_status(d, self_id, self, date) ==
    IF self.due_date # NoDate /\ RLt(R(0), self.balance_amount)
       /\ date > self.due_date /\ self.status # "paid"
       /\ self_id \in Rows(d.invoices)
    THEN [d EXCEPT !.invoices[self_id].status = "overdue"]
    ELSE d

\* ------------------------------ POST /invoices/<id>/payments, as two steps
\* Invoice.get_by_id at the head of add_payment_to_invoice
RouteLoad(r, id, amount) ==
    /\ reqs[r].pc = "idle"
    /\ id \in Rows(db.invoices)
    /\ reqs' = [reqs EXCEPT ![r] = [pc |-> "loaded", invoice_id |-> id,
                                    self |-> db.invoices[id], amount |-> amount,
                                    ok |-> FALSE, number |-> NoNumber]]
    /\ last' = [NoOp EXCEPT !.op = "load", !.invoice_id = id]
    /\ UNCHANGED << db, today, ops >>

\* the rest of the handler: its own checks on the loaded object, then
\* add_payment on it, then to_dict, which runs check_overdue_status
RoutePay(r) ==
    /\ reqs[r].pc = "loaded"
    /\ LET q == reqs[r]
           refused == RLe(q.amount, R(0)) \/ RLt(q.self.balance_amount, q.amount)
           res == add_payment(db, q.invoice_id, q.self, q.amount, "cash", today)
           paid == RAdd(q.self.paid_amount, q.amount)
           after == [q.self EXCEPT
                       !.paid_amount = paid,
                       !.balance_amount = RSub(R(q.self.total_amount), paid),
                       !.status = payment_status(q.self, paid,
                                      RSub(R(q.self.total_amount), paid), today)]
       IN  /\ db' = IF refused \/ res.raised THEN db
                    ELSE check_overdue_status(res.db, q.invoice_id, after, today)
           /\ reqs' = [reqs EXCEPT ![r].pc = "done",
                                   ![r].ok = ~(refused \/ res.raised)]
           /\ last' = [NoOp EXCEPT !.op = "route_payment",
                                   !.ok = ~(refused \/ res.raised),
                                   !.invoice_id = q.invoice_id]
    /\ UNCHANGED << today, ops >>

RaceAmounts == {R(100), R(305)}

\* ------------------------------------------------- POST /invoices, in one step
\* create_invoice: the checks on the body, Invoice.create, the immediate
\* payment on the invoice create returned, then to_dict; code is the HTTP
\* status of the response
create_invoice(d, shop_id, data, items, immediate_amount, date) ==
    IF items = << >> THEN [code |-> 400, db |-> d]
    ELSE LET r == create(d, shop_id, data, items, date)
             invoice_id == d.seq.invoices + 1
         IN  IF r.raised THEN [code |-> 500, db |-> r.db]
             ELSE LET invoice == r.db.invoices[invoice_id] IN
                  IF RLt(R(0), immediate_amount)
                  THEN IF RLt(R(invoice.total_amount), immediate_amount)
                       THEN [code |-> 400, db |-> r.db]
                       ELSE LET p == add_payment(r.db, invoice_id, invoice,
                                                 immediate_amount, "cash", date)
                            IN  IF p.raised THEN [code |-> 500, db |-> p.db]
                                ELSE [code |-> 201,
                                      db |-> check_overdue_status(p.db, invoice_id,
                                                 p.db.invoices[invoice_id], date)]
                  ELSE [code |-> 201,
                        db |-> check_overdue_status(r.db, invoice_id, invoice, date)]

ImmediateAmounts == {R(0), R(100), R(305), R(400)}

RouteCreateInvoice(shop_id, data, items, immediate_amount) ==
    /\ db.seq.invoices < MaxInvoices
    /\ ops < MaxOps
    /\ LET r == create_invoice(db, shop_id, data, items, immediate_amount, today) IN
       /\ db' = r.db
       /\ last' = [NoOp EXCEPT !.op = "create_invoice", !.ok = (r.code = 201),
                               !.invoice_id = IF r.db = db THEN 0 ELSE db.seq.invoices + 1,
                               !.amount = immediate_amount]
       /\ ops' = ops + 1
    /\ UNCHANGED << today, reqs >>

\* ------------------------------------------ Invoice.create, as two steps
\* generate_invoice_number reads the count on a connection of its own,
\* before create's connection has run a statement
CreateNumber(r, shop_id) ==
    /\ reqs[r].pc = "idle"
    /\ reqs' = [reqs EXCEPT ![r].pc = "numbered",
                            ![r].number = generate_invoice_number(db, shop_id, today)]
    /\ last' = [NoOp EXCEPT !.op = "number"]
    /\ UNCHANGED << db, today, ops >>

\* the rest of create, with the number it obtained
CreateInsert(r, invoice_data, items_data) ==
    /\ reqs[r].pc = "numbered"
    /\ LET number == reqs[r].number
           res == create(db, number[1], [invoice_data EXCEPT !.invoice_number = number],
                         items_data, today)
       IN  /\ db' = res.db
           /\ reqs' = [reqs EXCEPT ![r].pc = "done", ![r].ok = ~res.raised,
                                   ![r].invoice_id = IF res.raised THEN 0
                                                     ELSE db.seq.invoices + 1]
           /\ last' = [NoOp EXCEPT !.op = "create", !.ok = ~res.raised,
                                   !.invoice_id = IF res.raised THEN 0
                                                  ELSE db.seq.invoices + 1,
                                   !.undone = IF res.raised THEN res.written ELSE 0]
           /\ ops' = ops + 1
    /\ UNCHANGED today

\* ------------------------------------------------------------ the reads
\* get_days_overdue: the days since the due date while a balance is open
get_days_overdue(self, date) ==
    IF self.due_date # NoDate /\ RLt(R(0), self.balance_amount) /\ date > self.due_date
    THEN date - self.due_date
    ELSE 0

\* get_payment_summary: the summary of the payment records; is_overdue comes
\* from check_overdue_status, which writes
get_payment_summary(d, self_id, self, date) ==
    LET total_paid == RSumOver(d.invoice_payments, PaymentsOf(d, self_id), "amount")
    IN  [total_paid |-> total_paid,
         remaining_balance |-> RSub(R(self.total_amount), total_paid),
         payment_count |-> Cardinality(PaymentsOf(d, self_id)),
         days_overdue |-> get_days_overdue(self, date),
         db |-> check_overdue_status(d, self_id, self, date)]

\* to_dict: the fields of the loaded invoice with its payment summary
to_dict(d, self_id, self, date) ==
    LET summary == get_payment_summary(d, self_id, self, date)
    IN  [payment_summary |-> summary, days_overdue |-> get_days_overdue(self, date),
         db |-> summary.db]

\* GET /invoices/<id>: get_by_id, then to_dict
RouteGetInvoice(id) ==
    /\ id \in Rows(db.invoices)
    /\ db' = to_dict(db, id, db.invoices[id], today).db
    /\ last' = [NoOp EXCEPT !.op = "get_invoice", !.invoice_id = id]
    /\ UNCHANGED << today, ops, reqs >>

\* check_overdue_status on a freshly loaded invoice
CheckOverdueStatus(id) ==
    /\ id \in Rows(db.invoices)
    /\ db' = check_overdue_status(db, id, db.invoices[id], today)
    /\ last' = [NoOp EXCEPT !.op = "check_overdue_status", !.invoice_id = id]
    /\ UNCHANGED << today, ops, reqs >>

\* midnight: date.today() moves on
Tick ==
    /\ today + 1 \in Dates
    /\ today' = today + 1
    /\ last' = [NoOp EXCEPT !.op = "tick"]
    /\ UNCHANGED << db, ops, reqs >>

\* ------------------------------------------------------- specifications
Next ==
    \/ \E s \in Shops, c \in CreateInputs : Create(s, c[1], c[2])
    \/ \E id \in Rows(db.invoices) :
         \E amount \in PaymentAmounts(db.invoices[id]) : AddPayment(id, amount, today)
    \/ \E id \in Rows(db.invoices), entries \in ReturnLists : ProcessReturn(id, entries)
    \/ \E id \in Rows(db.invoices) : Delete(id)

\* the methods, called one at a time on a freshly loaded invoice
Spec == Init /\ [][Next]_vars

NextRace ==
    \/ \E s \in Shops, c \in CreateInputs : Create(s, c[1], c[2])
    \/ \E r \in Requests, id \in Rows(db.invoices), amount \in RaceAmounts : RouteLoad(r, id, amount)
    \/ \E r \in Requests : RoutePay(r)

\* two payment requests whose steps interleave
SpecRace == Init /\ [][NextRace]_vars

NextRoutes ==
    \/ \E s \in Shops, c \in CreateInputs, a \in ImmediateAmounts :
         RouteCreateInvoice(s, c[1], c[2], a)
    \/ \E id \in Rows(db.invoices) : RouteGetInvoice(id)
    \/ Tick

\* creation requests and reads, one at a time, across midnight
SpecRoutes == Init /\ [][NextRoutes]_vars

NextStatus ==
    \/ \E s \in Shops, c \in CreateInputs : Create(s, c[1], c[2])
    \/ \E id \in Rows(db.invoices) :
         \E amount \in PaymentAmounts(db.invoices[id]) : AddPayment(id, amount, today)
    \/ \E id \in Rows(db.invoices), entries \in ReturnLists : ProcessReturn(id, entries)
    \/ \E id \in Rows(db.invoices) : CheckOverdueStatus(id)
    \/ Tick

\* the four methods that write a status, one at a time, across midnight
SpecStatus == Init /\ [][NextStatus]_vars

NextNumbering ==
    \/ \E r \in Requests, s \in Shops : CreateNumber(r, s)
    \/ \E r \in Requests, c \in CreateInputs : CreateInsert(r, c[1], c[2])

\* two Invoice.create calls whose steps interleave
SpecNumbering == Init /\ [][NextNumbering]_vars

\* ------------------------------------------------------------ properties
Invoices == Rows(db.invoices)

\* C1: every stored invoice has total_amount = subtotal + tax_amount -
\* discount_amount, subtotal being the stored subtotal field.
C1_TotalFromStoredSubtotal ==
    \A k \in Invoices :
        db.invoices[k].total_amount =
            db.invoices[k].subtotal + db.invoices[k].tax_amount - db.invoices[k].discount_amount

\* C2: the amounts of an invoice's payment records, refunds negative, add up
\* to its paid_amount.
C2_PaymentsSumToPaid ==
    \A k \in Invoices :
        RSumOver(db.invoice_payments, PaymentsOf(db, k), "amount") = db.invoices[k].paid_amount

\* C3: with the calls made one at a time, every stored invoice has
\* balance_amount = total_amount - paid_amount.
C3_BalanceIsTotalMinusPaid ==
    \A k \in Invoices :
        db.invoices[k].balance_amount =
            RSub(R(db.invoices[k].total_amount), db.invoices[k].paid_amount)

\* a return on a partly paid invoice has just scaled the paid amount down to
\* a fraction and left a positive balance
C3_Witness ==
    /\ last.op = "process_return" /\ last.ok
    /\ last.invoice_id \in Invoices
    /\ db.invoices[last.invoice_id].paid_amount[2] # 1
    /\ RLt(R(0), db.invoices[last.invoice_id].balance_amount)

\* C4: when two payment requests for one invoice both loaded it before
\* either wrote, and both were accepted, paid_amount is the loaded paid
\* amount plus both amounts, balance_amount is total_amount minus that, and
\* paid_amount does not exceed total_amount.
C4_NoLostUpdate ==
    \A r1 \in Requests : \A r2 \in Requests \ {r1} :
        ( /\ reqs[r1].pc = "done" /\ reqs[r1].ok
          /\ reqs[r2].pc = "done" /\ reqs[r2].ok
          /\ reqs[r1].invoice_id = reqs[r2].invoice_id
          /\ reqs[r1].self = reqs[r2].self )
        => LET inv == db.invoices[reqs[r1].invoice_id]
               paid == RAdd(RAdd(reqs[r1].self.paid_amount, reqs[r1].amount), reqs[r2].amount)
           IN  /\ inv.paid_amount = paid
               /\ inv.balance_amount = RSub(R(inv.total_amount), paid)
               /\ RLe(inv.paid_amount, R(inv.total_amount))

\* C5: in every reachable state, add_payment with an amount <= 0 or above
\* the invoice's balance_amount fails and changes no table: no payment
\* record, and paid_amount, balance_amount and status as before.
C5_AddPaymentRejects ==
    \A id \in Invoices : \A amount \in PaymentAmounts(db.invoices[id]) :
        (RLe(amount, R(0)) \/ RLt(db.invoices[id].balance_amount, amount))
        => LET r == add_payment(db, id, db.invoices[id], amount, "cash", today)
           IN  r.raised /\ r.db = db

\* a positive amount above the balance has just been refused
C5_Witness ==
    /\ last.op = "add_payment" /\ ~last.ok
    /\ RLt(R(0), last.amount)

\* an entry that names no invoice item, or more than the item's quantity
BadReturn(entries) ==
    \E k \in 1..Len(entries) :
        \/ entries[k].invoice_item_id \notin Rows(db.invoice_items)
        \/ /\ entries[k].invoice_item_id \in Rows(db.invoice_items)
           /\ entries[k].returned_quantity > db.invoice_items[entries[k].invoice_item_id].quantity

\* C6: in every reachable state, a process_return call with an entry that
\* names an unknown invoice item, or more than the item's current quantity,
\* fails and changes no table.
C6_ReturnAllOrNothing ==
    \A id \in Invoices : \A entries \in ReturnLists :
        BadReturn(entries)
        => LET r == process_return(db, id, db.invoices[id], entries)
           IN  r.raised /\ r.db = db

\* an item without product id, with quantity or unit price <= 0, or with a
\* product id that has no row
BadItems(items) ==
    \E k \in 1..Len(items) :
        \/ items[k].product_id = 0
        \/ items[k].quantity <= 0
        \/ items[k].unit_price <= 0
        \/ items[k].product_id \notin Rows(db.products)

\* C7: in every reachable state, Invoice.create with such an item fails
\* and changes no table: no invoice row, no item row, no stock change, also
\* for the valid items before it.
C7_CreateAllOrNothing ==
    \A s \in Shops, data \in InvoiceDatas, items \in ItemLists :
        BadItems(items)
        => LET r == create(db, s, data, items, today)
           IN  r.raised /\ r.db = db

\* a create has just failed after it had written an item row and lowered
\* the stock for a valid first item
C7_Witness ==
    /\ last.op = "create" /\ ~last.ok
    /\ last.undone >= 1

\* C8: every invoice has 0 <= paid_amount <= total_amount.
C8_PaidWithinTotal ==
    \A k \in Invoices :
        /\ RLe(R(0), db.invoices[k].paid_amount)
        /\ RLe(db.invoices[k].paid_amount, R(db.invoices[k].total_amount))

\* C9: no product's stock_quantity is below zero.
C9_StockNeverNegative ==
    \A p \in Rows(db.products) : db.products[p].stock_quantity >= 0

\* C10: the number generate_invoice_number returns for a shop is the
\* invoice_number of no stored invoice.
C10_GeneratedNumberUnused ==
    \A s \in Shops : \A k \in Invoices :
        db.invoices[k].invoice_number # generate_invoice_number(db, s, today)

\* the status rule of the claims: paid, else overdue, else partial, else
\* pending
deriveStatus(balance_amount, paid_amount, due_date, date) ==
    IF RLe(balance_amount, R(0)) THEN "paid"
    ELSE IF due_date # NoDate /\ date > due_date THEN "overdue"
    ELSE IF RLt(R(0), paid_amount) THEN "partial"
    ELSE "pending"

\* C11: right after an Invoice.create or a process_return that succeeded,
\* the stored status of the invoice is deriveStatus of its balance_amount,
\* paid_amount and due_date on the date of the call; with a positive balance
\* and a due date that has passed it is overdue.
C11_StatusDerivedAfterCreateAndReturn ==
    ( /\ last.op \in {"create", "process_return"} /\ last.ok
      /\ last.invoice_id \in Invoices )
    => LET inv == db.invoices[last.invoice_id]
       IN  inv.status = deriveStatus(inv.balance_amount, inv.paid_amount, inv.due_date, today)
\* C12: right after an accepted add_payment the stored status is paid when
\* no balance remains, overdue when a positive balance remains and the
\* payment date is later than the due date, and partial when a positive
\* balance remains and the payment date is on or before the due date or no
\* due date is set.
C12_AddPaymentStatus ==
    ( /\ last.op = "add_payment" /\ last.ok
      /\ last.invoice_id \in Invoices )
    => LET inv == db.invoices[last.invoice_id]
           late == inv.due_date # NoDate /\ today > inv.due_date
       IN  /\ RLe(inv.balance_amount, R(0)) => inv.status = "paid"
           /\ (RLt(R(0), inv.balance_amount) /\ late) => inv.status = "overdue"
           /\ (RLt(R(0), inv.balance_amount) /\ ~late) => inv.status = "partial"

\* a payment made after the due date has just left a positive balance
C12_Witness ==
    /\ last.op = "add_payment" /\ last.ok
    /\ last.invoice_id \in Invoices
    /\ db.invoices[last.invoice_id].due_date # NoDate
    /\ today > db.invoices[last.invoice_id].due_date
    /\ RLt(R(0), db.invoices[last.invoice_id].balance_amount)
\* the paid amount the refund policy of the claims leaves
claimed_paid_amount(paid, original_total, new_total) ==
    IF RLt(R(new_total), paid) THEN R(new_total)
    ELSE IF RLt(R(0), paid)
         THEN RMin(R(new_total), RDiv(RMul(R(new_total), paid), R(original_total)))
    ELSE R(0)

\* C13: every process_return that succeeds leaves the paid_amount the
\* refund policy gives for the paid amount and total before the return and
\* the total after it; on an invoice with total 305 and paid 305 a return of
\* goods worth 100 leaves total 205, paid 205 and status paid.
C13_RefundPolicy ==
    [][ (last'.op = "process_return" /\ last'.ok)
        => LET before == db.invoices[last'.invoice_id]
               after == db'.invoices[last'.invoice_id]
           IN  /\ after.paid_amount =
                     claimed_paid_amount(before.paid_amount, before.total_amount,
                                         after.total_amount)
               /\ ( /\ before.total_amount = 305 /\ before.paid_amount = R(305)
                    /\ after.total_amount = 205 )
                  => (after.paid_amount = R(205) /\ after.status = "paid") ]_vars

\* a fully paid invoice of 305 has just had goods worth 100 returned
C13_Witness ==
    /\ last.op = "process_return" /\ last.ok
    /\ last.invoice_id \in Invoices
    /\ db.invoices[last.invoice_id].total_amount = 205
    /\ db.invoices[last.invoice_id].paid_amount = R(205)
    /\ \E p \in PaymentsOf(db, last.invoice_id) :
          db.invoice_payments[p].amount = R(-100)
\* C14: a process_return that lowers paid_amount adds exactly one payment
\* record, of method refund and amount minus the difference; one that leaves
\* paid_amount as it was adds none; the earlier records stay, so the sum of
\* the invoice's payment amounts changes by as much as paid_amount.
C14_RefundRecord ==
    [][ (last'.op = "process_return" /\ last'.ok)
        => LET id == last'.invoice_id
               refund == RSub(db.invoices[id].paid_amount, db'.invoices[id].paid_amount)
               added == Rows(db'.invoice_payments) \ Rows(db.invoice_payments)
           IN  /\ \A p \in Rows(db.invoice_payments) :
                     /\ p \in Rows(db'.invoice_payments)
                     /\ db'.invoice_payments[p] = db.invoice_payments[p]
               /\ RLt(R(0), refund) =>
                     \E p \in added :
                        /\ added = {p}
                        /\ db'.invoice_payments[p] =
                              [invoice_id |-> id, amount |-> RNeg(refund),
                               payment_method |-> "refund"]
               /\ refund = R(0) => added = {}
               /\ RSub(RSumOver(db'.invoice_payments, PaymentsOf(db', id), "amount"),
                       RSumOver(db.invoice_payments, PaymentsOf(db, id), "amount"))
                  = RNeg(refund) ]_vars

\* C15: in every reachable state, a process_return call with an entry whose
\* returned_quantity is <= 0 fails and changes no table; no other entry of
\* the call is applied.
C15_NonPositiveQuantityFails ==
    \A id \in Invoices : \A entries \in ReturnLists :
        (\E k \in 1..Len(entries) : entries[k].returned_quantity <= 0)
        => LET r == process_return(db, id, db.invoices[id], entries)
           IN  r.raised /\ r.applied = 0 /\ r.db = db
\* C16: in every reachable state, two add_payment calls in a row with the
\* same arguments on one invoice, both accepted, leave two more payment
\* records, paid_amount higher by twice the amount and balance_amount lower
\* by twice the amount.
C16_AddPaymentNotIdempotent ==
    \A id \in Invoices : \A amount \in PaymentAmounts(db.invoices[id]) :
        LET r1 == add_payment(db, id, db.invoices[id], amount, "cash", today)
            r2 == add_payment(r1.db, id, r1.db.invoices[id], amount, "cash", today)
            twice == RAdd(amount, amount)
        IN  (~r1.raised /\ ~r2.raised)
            => /\ Cardinality(PaymentsOf(r2.db, id)) = Cardinality(PaymentsOf(db, id)) + 2
               /\ r2.db.invoices[id].paid_amount = RAdd(db.invoices[id].paid_amount, twice)
               /\ r2.db.invoices[id].balance_amount =
                     RSub(db.invoices[id].balance_amount, twice)

\* an accepted add_payment has just been repeated with the same arguments
\* and accepted again
C16_Witness ==
    /\ last.op = "add_payment" /\ last.ok /\ last.again
    /\ Cardinality(PaymentsOf(db, last.invoice_id)) >= 2
\* C17: a creation request with an immediate payment that ends in an error
\* leaves every table as it was: no invoice, no item row, no stock change.
C17_CreateWithPaymentAtomic ==
    [][ (last'.op = "create_invoice" /\ ~last'.ok) => db' = db ]_vars
C19_ConcurrentNumbersDiffer ==
    \A r1 \in Requests : \A r2 \in Requests \ {r1} :
        (reqs[r1].pc = "numbered" /\ reqs[r2].pc = "numbered")
        => reqs[r1].number # reqs[r2].number
\* C20: Invoice.create does not succeed on an empty item list: the invoice
\* a successful create has just stored has at least one item row.
C20_EmptyItemListFails ==
    (last.op = "create" /\ last.ok /\ last.invoice_id \in Invoices)
    => ItemsOf(db, last.invoice_id) # {}
\* the sum of quantity * unit_price over item rows
RECURSIVE LineSum(_, _)
LineSum(t, ids) ==
    IF ids = {} THEN 0
    ELSE LET k == CHOOSE x \in ids : TRUE
         IN  t[k].quantity * t[k].unit_price + LineSum(t, ids \ {k})

\* the amounts of the invoice a create without initial payment has stored
CreatedFigures(id) ==
    LET inv == db.invoices[id]
        items == ItemsOf(db, id)
    IN  /\ inv.subtotal = LineSum(db.invoice_items, items)
        /\ inv.total_amount = inv.subtotal + inv.tax_amount - inv.discount_amount
        /\ inv.paid_amount = R(0)
        /\ inv.balance_amount = R(inv.total_amount)
        /\ SumOver(db.invoice_items, items, "total_price") = inv.subtotal
        /\ ( /\ \E k \in items : items = {k} /\ db.invoice_items[k].quantity = 3
                                  /\ db.invoice_items[k].unit_price = 100
             /\ inv.tax_amount = 10 /\ inv.discount_amount = 5 )
           => ( inv.subtotal = 300 /\ inv.total_amount = 305
                /\ inv.balance_amount = R(305) )

\* C21: right after a successful Invoice.create without initial payment the
\* invoice has subtotal = sum of quantity * unit_price of its items,
\* total_amount = subtotal + tax_amount - discount_amount, paid_amount 0,
\* balance_amount = total_amount, the items' total_price add up to the
\* subtotal, and the status is pending.
C21_CreateWithoutPaymentPending ==
    ( /\ last.op = "create" /\ last.ok /\ last.invoice_id \in Invoices
      /\ db.invoices[last.invoice_id].paid_amount = R(0) )
    => /\ CreatedFigures(last.invoice_id)
       /\ db.invoices[last.invoice_id].status = "pending"

\* C21 as amended: the same amounts, and the status is pending when
\* total_amount is above zero and paid when it is not.
C21_CreateWithoutPaymentAmended ==
    ( /\ last.op = "create" /\ last.ok /\ last.invoice_id \in Invoices
      /\ db.invoices[last.invoice_id].paid_amount = R(0) )
    => /\ CreatedFigures(last.invoice_id)
       /\ db.invoices[last.invoice_id].status =
             IF db.invoices[last.invoice_id].total_amount > 0 THEN "pending" ELSE "paid"

\* an invoice of one item, 3 at 100, with tax 10 and discount 5 has just
\* been created
C21_Witness ==
    /\ last.op = "create" /\ last.ok /\ last.invoice_id \in Invoices
    /\ db.invoices[last.invoice_id].total_amount = 305
    /\ db.invoices[last.invoice_id].paid_amount = R(0)
    /\ db.invoices[last.invoice_id].status = "pending"
\* C22: an accepted add_payment adds exactly one payment record, of the
\* invoice and of the amount paid, leaves the earlier records, raises
\* paid_amount by the amount and lowers balance_amount by the amount; when
\* the amount is the whole balance it leaves balance_amount 0 and status
\* paid.
C22_AddPaymentEffect ==
    [][ (last'.op = "add_payment" /\ last'.ok)
        => LET id == last'.invoice_id
               amount == last'.amount
               added == Rows(db'.invoice_payments) \ Rows(db.invoice_payments)
           IN  /\ \A p \in Rows(db.invoice_payments) :
                     /\ p \in Rows(db'.invoice_payments)
                     /\ db'.invoice_payments[p] = db.invoice_payments[p]
               /\ \E p \in added :
                     /\ added = {p}
                     /\ db'.invoice_payments[p].invoice_id = id
                     /\ db'.invoice_payments[p].amount = amount
               /\ db'.invoices[id].paid_amount = RAdd(db.invoices[id].paid_amount, amount)
               /\ db'.invoices[id].balance_amount =
                     RSub(db.invoices[id].balance_amount, amount)
               /\ amount = db.invoices[id].balance_amount
                  => ( db'.invoices[id].balance_amount = R(0)
                       /\ db'.invoices[id].status = "paid" ) ]_vars

\* the invoice of 305 has just been paid in full by one payment of 305
C22_Witness ==
    /\ last.op = "add_payment" /\ last.ok /\ last.amount = R(305)
    /\ last.invoice_id \in Invoices
    /\ db.invoices[last.invoice_id].paid_amount = R(305)
    /\ db.invoices[last.invoice_id].balance_amount = R(0)
    /\ db.invoices[last.invoice_id].status = "paid"
RECURSIVE GrossReturn(_, _)
GrossReturn(entries, k) ==
    IF k > Len(entries) THEN 0
    ELSE (IF entries[k].returned_quantity > 0
          THEN entries[k].returned_quantity
                 * db.invoice_items[entries[k].invoice_item_id].unit_price
          ELSE 0) + GrossReturn(entries, k + 1)

\* C24: in every reachable state, a process_return call that succeeds
\* returns the gross amount of its entries whatever is refunded; on an
\* invoice with paid_amount 0 it leaves paid_amount 0 and adds no payment
\* record.
C24_ReturnsGrossAmount ==
    \A id \in Invoices : \A entries \in ReturnLists :
        LET r == process_return(db, id, db.invoices[id], entries) IN
        ~r.raised
        => /\ r.ret = GrossReturn(entries, 1)
           /\ db.invoices[id].paid_amount = R(0)
              => /\ r.db.invoices[id].paid_amount = R(0)
                 /\ r.db.invoice_payments = db.invoice_payments
\* C25: no step raises the quantity of an invoice item that exists, no item
\* has a quantity below zero, in particular after a process_return call that
\* names the same item twice, and every item's total_price is its quantity
\* times its unit_price.
C25_ItemQuantityMonotone ==
    [][ \A i \in Rows(db'.invoice_items) :
          LET new == db'.invoice_items[i] IN
          /\ new.quantity >= 0
          /\ new.total_price = new.quantity * new.unit_price
          /\ i \in Rows(db.invoice_items)
             => new.quantity <= db.invoice_items[i].quantity ]_vars

\* one create and one process_return call that took the item of 3 down to
\* 1: two entries of one unit on the same item
C25_Witness ==
    /\ last.op = "process_return" /\ last.ok /\ ops = 2
    /\ \E i \in Rows(db.invoice_items) :
          /\ db.invoice_items[i].quantity = 1
          /\ db.invoice_items[i].unit_price = 100
          /\ db.invoice_items[i].total_price = 100
\* C26: after Invoice.delete the invoice has no row, no item and no payment
\* record, and every other invoice has its row, its items and its payment
\* records as before.
C26_DeleteWhole ==
    [][ last'.op = "delete"
        => LET id == last'.invoice_id IN
           /\ id \notin Rows(db'.invoices)
           /\ ItemsOf(db', id) = {}
           /\ PaymentsOf(db', id) = {}
           /\ \A o \in Rows(db.invoices) \ {id} :
                 /\ o \in Rows(db'.invoices)
                 /\ db'.invoices[o] = db.invoices[o]
                 /\ ItemsOf(db', o) = ItemsOf(db, o)
                 /\ PaymentsOf(db', o) = PaymentsOf(db, o)
                 /\ \A i \in ItemsOf(db, o) : db'.invoice_items[i] = db.invoice_items[i]
                 /\ \A p \in PaymentsOf(db, o) :
                       db'.invoice_payments[p] = db.invoice_payments[p] ]_vars

\* one of two invoices has just been deleted; the other is there with its
\* items
C26_Witness ==
    /\ last.op = "delete"
    /\ last.invoice_id \notin Rows(db.invoices)
    /\ ItemsOf(db, last.invoice_id) = {}
    /\ \E o \in Invoices : ItemsOf(db, o) # {}
\* an entry that returns something of an item of another invoice than id
ForeignEntry(id, entries) ==
    \E k \in 1..Len(entries) :
        /\ entries[k].returned_quantity > 0
        /\ entries[k].invoice_item_id \in Rows(db.invoice_items)
        /\ db.invoice_items[entries[k].invoice_item_id].invoice_id # id

\* C27: in every reachable state, process_return on an invoice leaves the
\* items of every other invoice as they are, and a call with an entry on an
\* item of another invoice fails and changes no table: item quantity and
\* product stock as before.
C27_ReturnOnlyOwnItems ==
    \A id \in Invoices : \A entries \in ReturnLists :
        LET r == process_return(db, id, db.invoices[id], entries) IN
        /\ \A i \in Rows(db.invoice_items) \ ItemsOf(db, id) :
              r.db.invoice_items[i] = db.invoice_items[i]
        /\ ForeignEntry(id, entries) => r.raised /\ r.db = db
\* C28: a create call that succeeds for a shop leaves an invoice whose items
\* all name products of that shop, and no create call changes the stock of a
\* product of another shop.
C28_CreateOnlyOwnProducts ==
    [][ (last'.op = "create" /\ last'.ok)
        => LET shop_id == db'.invoices[last'.invoice_id].shop_id IN
           /\ \A i \in ItemsOf(db', last'.invoice_id) :
                 db'.products[db'.invoice_items[i].product_id].shop_id = shop_id
           /\ \A p \in Rows(db.products) :
                 db.products[p].shop_id # shop_id
                 => db'.products[p].stock_quantity = db.products[p].stock_quantity ]_vars
\* the stock of a product plus the quantities of the invoice items on it
StockAndInvoiced(d, p) ==
    d.products[p].stock_quantity
      + SumOver(d.invoice_items,
                {i \in Rows(d.invoice_items) : d.invoice_items[i].product_id = p},
                "quantity")

\* C29: every create and every process_return step leaves, for every
\* product, the stock plus the quantities of the invoice items on that
\* product as it was: create lowers the stock by the invoiced quantity, a
\* return raises it by the returned quantity.
C29_StockLockStep ==
    [][ last'.op \in {"create", "process_return"}
        => \A p \in Rows(db.products) :
              StockAndInvoiced(db', p) = StockAndInvoiced(db, p) ]_vars

\* one unit of the three invoiced has just been returned to the stock
C29_Witness ==
    /\ last.op = "process_return" /\ last.ok
    /\ \E i \in Rows(db.invoice_items) :
          /\ db.invoice_items[i].quantity = 2
          /\ db.products[db.invoice_items[i].product_id].stock_quantity = InitStock - 2
\* C30: in every state reached by create, add_payment, process_return and
\* check_overdue_status, an invoice has status paid exactly when its
\* balance_amount is <= 0, and on an invoice that is paid with balance 0
\* every add_payment fails and changes no table.
C30_PaidIffNoBalance ==
    \A id \in Invoices :
        LET inv == db.invoices[id] IN
        /\ inv.status = "paid" <=> RLe(inv.balance_amount, R(0))
        /\ (inv.status = "paid" /\ inv.balance_amount = R(0))
           => \A amount \in PaymentAmounts(inv) \cup {R(1)} :
                 LET r == add_payment(db, id, inv, amount, "cash", today)
                 IN  r.raised /\ r.db = db

\* the invoice of 305 was paid in full after its due date and a payment of
\* 100 on it has just been refused
C30_Witness ==
    /\ last.op = "add_payment" /\ ~last.ok /\ last.amount = R(100)
    /\ \E id \in Invoices :
          /\ db.invoices[id].status = "paid"
          /\ db.invoices[id].paid_amount = R(305)
          /\ db.invoices[id].balance_amount = R(0)
          /\ db.invoices[id].due_date # NoDate
          /\ today > db.invoices[id].due_date

====
